---- MODULE Spec2Model ----
(***************************************************************************)
(* A model of the Image class of CLImage (Image.cpp / Image.h): the        *)
(* filename-extension logic (hasValidExtension, removeExtension,           *)
(* addExtension, generateFilename), the copy constructor and saveImage     *)
(* (specification Spec), and openImage with the operations that read and   *)
(* write pixels (specification SpecIO).                                    *)
(*                                                                         *)
(* A std::string is a sequence of one-character strings.  The code's       *)
(* indices are 0-based; At, substr, erase, insert and replace take the     *)
(* code's 0-based positions.                                               *)
(***************************************************************************)
EXTENDS Integers, Sequences, FiniteSets, TLC

(***************************************************************************)
(* Bounds of the model.                                                    *)
(***************************************************************************)
\* Longest stem drawn over Alphabet for the filename given to the constructor.
MaxStemLen == 2
\* Most Image objects alive at once (the constructed one and its copies).
MaxImages == 2

(***************************************************************************)
(* std::string operations, by 0-based position as the code calls them.     *)
(***************************************************************************)
Min(a, b) == IF a < b THEN a ELSE b

At(s, i) == s[i + 1]

substr(s, pos, n) == SubSeq(s, pos + 1, pos + Min(n, Len(s) - pos))

erase(s, pos, n) == SubSeq(s, 1, pos) \o SubSeq(s, pos + Min(n, Len(s) - pos) + 1, Len(s))

insert(s, pos, t) == SubSeq(s, 1, pos) \o t \o SubSeq(s, pos + 1, Len(s))

replace(s, pos, n, t) == SubSeq(s, 1, pos) \o t \o SubSeq(s, pos + Min(n, Len(s) - pos) + 1, Len(s))

Digits == <<"0", "1", "2", "3", "4", "5", "6", "7", "8", "9">>

isdigit(c) == \E d \in 1..10 : Digits[d] = c

DigitVal(c) == (CHOOSE d \in 1..10 : Digits[d] = c) - 1

\* The largest int of the build (32-bit int).
INT_MAX == 2147483647

\* std::stoi on a string of decimal digits: the value, or NoInt when the
\* value does not fit an int (std::out_of_range).
NoInt == -1

RECURSIVE stoiFrom(_, _, _)
stoiFrom(s, i, acc) ==
  IF i > Len(s) THEN acc
  ELSE LET d == DigitVal(s[i])
       IN  IF acc > (INT_MAX - d) \div 10 THEN NoInt
           ELSE stoiFrom(s, i + 1, acc * 10 + d)

stoi(s) == stoiFrom(s, 1, 0)

\* std::to_string of a non-negative int.
RECURSIVE to_string(_)
to_string(n) ==
  IF n < 10 THEN <<Digits[n + 1]>>
  ELSE to_string(n \div 10) \o <<Digits[(n % 10) + 1]>>

(***************************************************************************)
(* The format registry.                                                    *)
(***************************************************************************)
EXTENSION_COUNT == 6

VALID_EXTENSIONS ==
  << [ext |-> <<".", "p", "n", "g">>,      format |-> "CV_IMWRITE_PNG_COMPRESSION", quality |-> 9],
     [ext |-> <<".", "j", "p", "g">>,      format |-> "CV_IMWRITE_JPEG_QUALITY",    quality |-> 100],
     [ext |-> <<".", "j", "p", "e", "g">>, format |-> "CV_IMWRITE_JPEG_QUALITY",    quality |-> 100],
     [ext |-> <<".", "p", "b", "m">>,      format |-> "CV_IMWRITE_PXM_BINARY",      quality |-> 1],
     [ext |-> <<".", "p", "g", "m">>,      format |-> "CV_IMWRITE_PXM_BINARY",      quality |-> 1],
     [ext |-> <<".", "p", "p", "m">>,      format |-> "CV_IMWRITE_PXM_BINARY",      quality |-> 1] >>

\* VALID_EXTENSIONS[idx] with the code's 0-based index.
FormatAt(idx) == VALID_EXTENSIONS[idx + 1]

(***************************************************************************)
(* Image::hasValidExtension.  The result is a record: how the call ended   *)
(* ("return", or "out_of_range" when std::string::at throws) and the       *)
(* returned code.                                                          *)
(***************************************************************************)
Returned(code) == [outcome |-> "return", ret |-> code]

Threw == [outcome |-> "out_of_range", ret |-> 0]

\* LocateDot gone wrong: the scan runs forward from the start and stops at
\* the first '.' instead of the last.
LocateDot_FromStart(FILENAME, ch) ==
  IF \E p \in 0..ch : At(FILENAME, p) = "."
  THEN CHOOSE p \in 0..ch :
         At(FILENAME, p) = "." /\ \A q \in 0..(p - 1) : At(FILENAME, q) # "."
  ELSE -1

\* while( FILENAME.at(ch) != '.') --ch;  the final ch, or -1 when at(ch) is
\* called with ch = -1 (which throws).
RECURSIVE LocateDot(_, _)
LocateDot(FILENAME, ch) ==
  IF ch < 0 THEN -1
  ELSE IF At(FILENAME, ch) # "." THEN LocateDot(FILENAME, ch - 1)
  ELSE ch

\* MatchExtension gone wrong: the comparison ignores the case of letters.
ToLower(c) ==
  CASE c = "P" -> "p" [] c = "N" -> "n" [] c = "G" -> "g" [] OTHER -> c

RECURSIVE MatchExtension_IgnoresCase(_, _)
MatchExtension_IgnoresCase(ext, idx) ==
  IF idx < EXTENSION_COUNT
  THEN IF [p \in 1..Len(ext) |-> ToLower(ext[p])] = FormatAt(idx).ext THEN idx
       ELSE MatchExtension_IgnoresCase(ext, idx + 1)
  ELSE -1

\* MatchExtension gone wrong: the loop stops one entry early and never
\* compares with the last extension of the registry.
RECURSIVE MatchExtension_SkipsLast(_, _)
MatchExtension_SkipsLast(ext, idx) ==
  IF idx < EXTENSION_COUNT - 1
  THEN IF ext = FormatAt(idx).ext THEN idx ELSE MatchExtension_SkipsLast(ext, idx + 1)
  ELSE -1

\* while(idx < EXTENSION_COUNT) { if(!ext.compare(...)) return idx; ++idx; } return -1;
RECURSIVE MatchExtension(_, _)
MatchExtension(ext, idx) ==
  IF idx < EXTENSION_COUNT
  THEN IF ext = FormatAt(idx).ext THEN idx ELSE MatchExtension(ext, idx + 1)
  ELSE -1

hasValidExtension(FILENAME) ==
  IF FILENAME = <<>> THEN Returned(-3)
  ELSE LET ch == LocateDot(FILENAME, Len(FILENAME) - 1)
       IN  IF ch < 0 THEN Threw
           ELSE IF ch = 0 THEN Returned(-2)
           ELSE Returned(MatchExtension(substr(FILENAME, ch, Len(FILENAME) - 1), 0))

(***************************************************************************)
(* Image::removeExtension.  The result is the returned bool and the        *)
(* string left in the reference parameter.                                 *)
(***************************************************************************)
\* while(ch > 0 && s.at(ch) != '.') --ch;  the final ch.
RECURSIVE ScanDot(_, _)
ScanDot(s, ch) ==
  IF ch > 0 /\ At(s, ch) # "." THEN ScanDot(s, ch - 1) ELSE ch

\* removeExtension gone wrong: the erase starts one past the '.', which is
\* left in the string.
removeExtension_KeepsDot(bad_filename) ==
  IF bad_filename = <<>> THEN [ok |-> FALSE, out |-> bad_filename]
  ELSE LET s_len == Len(bad_filename)
           ch    == ScanDot(bad_filename, s_len - 1)
       IN  IF ch = 0 THEN [ok |-> FALSE, out |-> bad_filename]
           ELSE [ok |-> TRUE, out |-> erase(bad_filename, ch + 1, s_len - ch)]

\* removeExtension gone wrong: the failure test is ch < 0, so a scan that
\* ends at position 0 erases the whole string.
removeExtension_ErasesAll(bad_filename) ==
  IF bad_filename = <<>> THEN [ok |-> FALSE, out |-> bad_filename]
  ELSE LET s_len == Len(bad_filename)
           ch    == ScanDot(bad_filename, s_len - 1)
       IN  IF ch < 0 THEN [ok |-> FALSE, out |-> bad_filename]
           ELSE [ok |-> TRUE, out |-> erase(bad_filename, ch, s_len - ch)]

removeExtension(bad_filename) ==
  IF bad_filename = <<>> THEN [ok |-> FALSE, out |-> bad_filename]
  ELSE LET s_len == Len(bad_filename)
           ch    == ScanDot(bad_filename, s_len - 1)
       IN  IF ch = 0 THEN [ok |-> FALSE, out |-> bad_filename]
           ELSE [ok |-> TRUE, out |-> erase(bad_filename, ch, s_len - ch)]

(***************************************************************************)
(* Image::addExtension, for an image whose initialized() is isInit.        *)
(***************************************************************************)
DefaultExtension == <<".", "p", "n", "g">>

addExtension(isInit, incomplete_filename) ==
  IF ~isInit THEN [ok |-> FALSE, out |-> incomplete_filename]
  ELSE [ok |-> TRUE, out |-> removeExtension(incomplete_filename).out \o DefaultExtension]

(***************************************************************************)
(* Image::generateFilename.  The result is the SET of ways the call can    *)
(* end: "return" with the returned string, "out_of_range" when             *)
(* hasValidExtension or std::stoi throws, "undefined" when the signed      *)
(* addition stoi(mod) + 1 overflows and the build traps.                   *)
(***************************************************************************)
GenReturned(name) == [outcome |-> "return", out |-> name]

GenThrew == [outcome |-> "out_of_range", out |-> <<>>]

GenUndefined == [outcome |-> "undefined", out |-> <<>>]

\* while(mod_ch >= 0 && isdigit(seed.at(mod_ch))) { mod.insert(0,1,seed.at(mod_ch)); --mod_ch; }
RECURSIVE CollectDigits(_, _, _)
CollectDigits(seed, mod_ch, mod) ==
  IF mod_ch >= 0 /\ isdigit(At(seed, mod_ch))
  THEN CollectDigits(seed, mod_ch - 1, insert(mod, 0, <<At(seed, mod_ch)>>))
  ELSE [mod_ch |-> mod_ch, mod |-> mod]

\* std::to_string(n + 1) for an int n: the strings the build can produce.
\* INT_MAX + 1 is a signed overflow: the build wraps to INT_MIN or traps
\* (the empty string stands for the trap).
IntMinString == <<"-", "2", "1", "4", "7", "4", "8", "3", "6", "4", "8">>

Incremented(n) ==
  IF n = INT_MAX THEN {IntMinString, <<>>} ELSE {to_string(n + 1)}

\* FirstModification gone wrong: "_1" goes in after the '.', not before it.
FirstModification_AfterDot(seed, ext_ch) == insert(seed, ext_ch + 1, <<"_", "1">>)

\* seed.insert(ext_ch, "_1")
FirstModification(seed, ext_ch) == insert(seed, ext_ch, <<"_", "1">>)

\* mod.insert(0, "_"); seed.replace(mod_ch, (ext_ch - mod_ch), mod)
NextModification(seed, mod_ch, ext_ch, mod) ==
  replace(seed, mod_ch, ext_ch - mod_ch, insert(mod, 0, <<"_">>))

\* generateFilename gone wrong: the test for a preexisting modification is
\* mod_ch >= 0, so a '_' at position 0 counts as the delimiter.
generateFilename_UnderscoreAtStart(seed) ==
  IF seed = <<>> THEN {GenReturned(<<>>)}
  ELSE
  LET hv == hasValidExtension(seed) IN
  IF hv.outcome # "return" THEN {GenThrew}
  ELSE IF ~(hv.ret >= 0) THEN {GenReturned(<<>>)}
  ELSE
  LET s_len  == Len(seed)
      ext_ch == ScanDot(seed, s_len - 1)
  IN  IF isdigit(At(seed, ext_ch - 1))
      THEN LET scan   == CollectDigits(seed, ext_ch - 1, <<>>)
               mod_ch == scan.mod_ch
           IN  IF mod_ch >= 0 /\ At(seed, mod_ch) = "_"
               THEN LET n == stoi(scan.mod)
                    IN  IF n = NoInt THEN {GenThrew}
                        ELSE { IF m = <<>> THEN GenUndefined
                               ELSE GenReturned(NextModification(seed, mod_ch, ext_ch, m))
                               : m \in Incremented(n) }
               ELSE {GenReturned(seed)}
      ELSE {GenReturned(FirstModification(seed, ext_ch))}

generateFilename(seed) ==
  IF seed = <<>> THEN {GenReturned(<<>>)}
  ELSE
  LET hv == hasValidExtension(seed) IN
  IF hv.outcome # "return" THEN {GenThrew}
  ELSE IF ~(hv.ret >= 0) THEN {GenReturned(<<>>)}
  ELSE
  LET s_len  == Len(seed)
      ext_ch == ScanDot(seed, s_len - 1)
  IN  IF isdigit(At(seed, ext_ch - 1))
      THEN LET scan   == CollectDigits(seed, ext_ch - 1, <<>>)
               mod_ch == scan.mod_ch
           IN  IF mod_ch > 0 /\ At(seed, mod_ch) = "_"
               THEN LET n == stoi(scan.mod)
                    IN  IF n = NoInt THEN {GenThrew}
                        ELSE { IF m = <<>> THEN GenUndefined
                               ELSE GenReturned(NextModification(seed, mod_ch, ext_ch, m))
                               : m \in Incremented(n) }
               ELSE {GenReturned(seed)}
      ELSE {GenReturned(FirstModification(seed, ext_ch))}

(***************************************************************************)
(* The filenames given to the constructor: a stem (every string over       *)
(* Alphabet up to MaxStemLen, and the stems of NamedStems) followed by one *)
(* of Suffixes.                                                            *)
(***************************************************************************)
Alphabet == {"a", "_", ".", "9"}

Stems == UNION { [1..n -> Alphabet] : n \in 0..MaxStemLen }

\* archive.tar, photo_9, a zero-padded run, and the runs around INT_MAX.
NamedStems ==
  { <<"a", ".", "a">>,
    <<"a", "_", "9">>,
    <<"a", "_", "0", "9">>,
    <<"a", "_", "2", "1", "4", "7", "4", "8", "3", "6", "4", "6">>,
    <<"a", "_", "2", "1", "4", "7", "4", "8", "3", "6", "4", "7">>,
    <<"a", "_", "2", "1", "4", "7", "4", "8", "3", "6", "4", "8">> }

Suffixes ==
  { VALID_EXTENSIONS[k].ext : k \in 1..EXTENSION_COUNT }
    \cup { <<>>, <<".", "b", "m", "p">>, <<".", "P", "N", "G">> }

Filenames == { stem \o suffix : stem \in Stems \cup NamedStems, suffix \in Suffixes }

(***************************************************************************)
(* State.                                                                  *)
(*   images  the Image objects alive, in order of construction; each has   *)
(*           its filename and its super pointer: "null" (nullptr),         *)
(*           "nodata" (a cv::Mat whose data is null) or "data".            *)
(*   call    the last member call made and how it ended.                   *)
(***************************************************************************)
VARIABLES images, call

vars == <<images, call>>

\* Image::initialized(): super && super->data
initialized(img) == img.super = "data"

NoCall ==
  [ op |-> "none", img |-> 0, arg |-> <<>>, outcome |-> "none", ret |-> 0,
    ok |-> FALSE, out |-> <<>>, encoded |-> FALSE, ext_idx |-> 0,
    format |-> "none", quality |-> 0 ]

\* Image::Image(const std::string &): filename is stored, then openImage()
\* leaves super null (empty filename, or no such file) or sets it to the
\* matrix imread returns (with data, or without when decoding fails).
Init ==
  /\ \E f \in Filenames :
       \E sup \in (IF f = <<>> THEN {"null"} ELSE {"null", "nodata", "data"}) :
         images = << [filename |-> f, super |-> sup] >>
  /\ call = NoCall

\* A call of hasValidExtension with the filename of image i as argument.
HasValidExtensionCall(i) ==
  LET r == hasValidExtension(images[i].filename)
  IN  /\ call' = [NoCall EXCEPT !.op = "hasValidExtension", !.img = i,
                                !.arg = images[i].filename,
                                !.outcome = r.outcome, !.ret = r.ret]
      /\ UNCHANGED images

\* A call of removeExtension on a copy of the filename of image i.
RemoveExtensionCall(i) ==
  LET r == removeExtension(images[i].filename)
  IN  /\ call' = [NoCall EXCEPT !.op = "removeExtension", !.img = i,
                                !.arg = images[i].filename,
                                !.outcome = "return", !.ok = r.ok, !.out = r.out]
      /\ UNCHANGED images

\* A call of addExtension on a copy of the filename of image i.
AddExtensionCall(i) ==
  LET r == addExtension(initialized(images[i]), images[i].filename)
  IN  /\ call' = [NoCall EXCEPT !.op = "addExtension", !.img = i,
                                !.arg = images[i].filename,
                                !.outcome = "return", !.ok = r.ok, !.out = r.out]
      /\ UNCHANGED images

\* A call of generateFilename with the filename of image i as seed.
GenerateFilenameCall(i) ==
  \E r \in generateFilename(images[i].filename) :
    /\ call' = [NoCall EXCEPT !.op = "generateFilename", !.img = i,
                              !.arg = images[i].filename,
                              !.outcome = r.outcome, !.out = r.out]
    /\ UNCHANGED images

\* Image::Image(const Image & img_src) with image i as img_src.  When
\* generateFilename throws in the member initializer no object is made.
CopyConstruct(i) ==
  /\ Len(images) < MaxImages
  /\ \E r \in generateFilename(images[i].filename) :
       /\ call' = [NoCall EXCEPT !.op = "copy", !.img = i,
                                 !.arg = images[i].filename,
                                 !.outcome = r.outcome, !.out = r.out]
       /\ images' = IF r.outcome = "return"
                    THEN Append(images, [filename |-> r.out, super |-> images[i].super])
                    ELSE images

\* VALID_EXTENSIONS[ext_idx].format and .quality as saveImage reads them.
\* With ext_idx outside 0..5 the read is out of the array's bounds: the
\* build yields any entry's values, some other values, or crashes.
RegistryRead(ext_idx) ==
  IF ext_idx >= 0 /\ ext_idx < EXTENSION_COUNT
  THEN { [format |-> FormatAt(ext_idx).format, quality |-> FormatAt(ext_idx).quality] }
  ELSE { [format |-> VALID_EXTENSIONS[k].format, quality |-> VALID_EXTENSIONS[k].quality]
           : k \in 1..EXTENSION_COUNT }
       \cup { [format |-> "garbage", quality |-> 0], [format |-> "crash", quality |-> 0] }

\* FilenameToSave gone wrong: the extension is replaced whatever the index.
FilenameToSave_AlwaysRepairs(img, ext_idx) ==
  addExtension(initialized(img), removeExtension(img.filename).out)

\* The filename saveImage writes to, from the stored filename and the
\* index hasValidExtension gave: removeExtension then addExtension when the
\* index is not one of the registry.
FilenameToSave(img, ext_idx) ==
  IF ext_idx < 0 \/ ext_idx >= EXTENSION_COUNT
  THEN addExtension(initialized(img), removeExtension(img.filename).out)
  ELSE [ok |-> TRUE, out |-> img.filename]

\* Image::saveImage on image i.
SaveImage(i) ==
  LET img  == images[i]
      base == [NoCall EXCEPT !.op = "saveImage", !.img = i, !.arg = img.filename,
                             !.outcome = "return", !.out = img.filename]
  IN  IF ~initialized(img) \/ img.filename = <<>>
      THEN /\ call' = base
           /\ UNCHANGED images
      ELSE
      LET hv == hasValidExtension(img.filename) IN
      IF hv.outcome # "return"
      THEN /\ call' = [base EXCEPT !.outcome = hv.outcome]
           /\ UNCHANGED images
      ELSE
      LET fixed == FilenameToSave(img, hv.ret) IN
      /\ images' = [images EXCEPT ![i].filename = fixed.out]
      /\ IF ~fixed.ok
         THEN call' = [base EXCEPT !.out = fixed.out]
         ELSE \E rd \in RegistryRead(hv.ret), written \in BOOLEAN :
                call' = IF rd.format = "crash"
                        THEN [base EXCEPT !.outcome = "undefined", !.out = fixed.out,
                                          !.ext_idx = hv.ret]
                        ELSE [base EXCEPT !.out = fixed.out, !.ok = written,
                                          !.encoded = TRUE, !.ext_idx = hv.ret,
                                          !.format = rd.format, !.quality = rd.quality]

Next ==
  \E i \in 1..Len(images) :
    \/ HasValidExtensionCall(i)
    \/ RemoveExtensionCall(i)
    \/ AddExtensionCall(i)
    \/ GenerateFilenameCall(i)
    \/ CopyConstruct(i)
    \/ SaveImage(i)

Spec == Init /\ [][Next]_vars

(***************************************************************************)
(* Notions the properties are stated with, defined on the string alone.    *)
(***************************************************************************)
\* The 0-based position of the last '.' of f, or -1 when f has none.
LastDot(f) ==
  IF \E p \in 1..Len(f) : f[p] = "."
  THEN (CHOOSE p \in 1..Len(f) : f[p] = "." /\ \A q \in (p + 1)..Len(f) : f[q] # ".") - 1
  ELSE -1

\* The suffix of f that starts at its last '.' (f has one).
Extension(f) == SubSeq(f, LastDot(f) + 1, Len(f))

\* The part of f before its last '.' (f has one).
Stem(f) == SubSeq(f, 1, LastDot(f))

\* e is the extension of registry entry k (0-based).
IsRegistryExtension(e, k) == k \in 0..(EXTENSION_COUNT - 1) /\ VALID_EXTENSIONS[k + 1].ext = e

\* validateExtension gives Valid for f.
HasValidResult(f) ==
  LET r == hasValidExtension(f) IN r.outcome = "return" /\ r.ret >= 0

\* The last call was generateFilename, directly or from the copy constructor.
GenerateCalled == call.op \in {"generateFilename", "copy"}

(***************************************************************************)
(* C1.  As claimed: for every filename whose suffix starting at its last   *)
(* '.' is exactly one of the registry extensions, hasValidExtension        *)
(* returns the index of that entry, also when the filename is the          *)
(* extension alone.                                                        *)
(***************************************************************************)
C1_AsClaimed ==
  (call.op = "hasValidExtension" /\ LastDot(call.arg) >= 0)
    => \A k \in 0..(EXTENSION_COUNT - 1) :
         IsRegistryExtension(Extension(call.arg), k)
           => (call.outcome = "return" /\ call.ret = k)

(***************************************************************************)
(* C1, amended.  For every filename whose last '.' is at a position        *)
(* greater than 0 and whose suffix starting there is exactly one of the    *)
(* registry extensions, hasValidExtension returns the index of that entry; *)
(* for a filename that is a registry extension alone (last '.' at          *)
(* position 0) it returns -2.                                              *)
(***************************************************************************)
C1_ValidIndex ==
  (call.op = "hasValidExtension" /\ LastDot(call.arg) >= 0)
    => \A k \in 0..(EXTENSION_COUNT - 1) :
         IsRegistryExtension(Extension(call.arg), k)
           => /\ call.outcome = "return"
              /\ call.ret = (IF LastDot(call.arg) > 0 THEN k ELSE -2)

\* hasValidExtension was called on a name with two dots ending in .ppm and
\* returned the last index of the registry.
C1_Witness ==
  /\ call.op = "hasValidExtension"
  /\ call.arg = <<"a", ".", "a", ".", "p", "p", "m">>
  /\ call.ret = 5

(***************************************************************************)
(* C2.  For every non-empty filename that contains no '.',                 *)
(* hasValidExtension returns -2 (NoExtension).                             *)
(***************************************************************************)
C2_NoDotIsNoExtension ==
  (call.op = "hasValidExtension" /\ call.arg # <<>> /\ LastDot(call.arg) = -1)
    => (call.outcome = "return" /\ call.ret = -2)

(***************************************************************************)
(* C3.  hasValidExtension, removeExtension, addExtension and               *)
(* generateFilename always return: no call of them ends in an exception    *)
(* or in undefined behaviour, whatever the string.                         *)
(***************************************************************************)
C3_Total ==
  call.op \in {"hasValidExtension", "removeExtension", "addExtension", "generateFilename"}
    => call.outcome = "return"

(***************************************************************************)
(* C4.  For every seed with a Valid extension, the filename                *)
(* generateFilename returns is different from the seed.                    *)
(***************************************************************************)
C4_DerivedDiffers ==
  (GenerateCalled /\ HasValidResult(call.arg) /\ call.outcome = "return")
    => call.out # call.arg

(***************************************************************************)
(* C5.  When saveImage reaches the encode step, the registry index it      *)
(* uses is within 0..5 and the format and quality it passes are those of   *)
(* the registry entry of the extension of the filename being written.      *)
(***************************************************************************)
C5_EncodeParams ==
  (call.op = "saveImage" /\ call.encoded)
    => /\ call.ext_idx \in 0..(EXTENSION_COUNT - 1)
       /\ LastDot(call.out) >= 0
       /\ \E k \in 0..(EXTENSION_COUNT - 1) :
            /\ IsRegistryExtension(Extension(call.out), k)
            /\ call.format = VALID_EXTENSIONS[k + 1].format
            /\ call.quality = VALID_EXTENSIONS[k + 1].quality

(***************************************************************************)
(* C6.  For every seed with a Valid extension whose stem ends in '_'       *)
(* followed by a run of decimal digits N, the '_' not at position 0,       *)
(* generateFilename returns the seed with the digit run replaced by the    *)
(* decimal form of N+1; what precedes the run (the '_' included) and the   *)
(* extension are kept.                                                     *)
(***************************************************************************)
\* The number of decimal digits at the end of s.
RECURSIVE TrailingDigits(_)
TrailingDigits(s) ==
  IF s # <<>> /\ isdigit(s[Len(s)]) THEN 1 + TrailingDigits(SubSeq(s, 1, Len(s) - 1)) ELSE 0

\* A digit string without its leading zeros (one digit is always kept).
RECURSIVE StripZeros(_)
StripZeros(d) == IF Len(d) > 1 /\ d[1] = "0" THEN StripZeros(Tail(d)) ELSE d

\* The decimal form of N+1 from the decimal form of N, digit by digit.
RECURSIVE DecimalSuccessor(_)
DecimalSuccessor(d) ==
  IF d = <<>> THEN <<"1">>
  ELSE IF d[Len(d)] = "9" THEN DecimalSuccessor(SubSeq(d, 1, Len(d) - 1)) \o <<"0">>
  ELSE SubSeq(d, 1, Len(d) - 1) \o <<Digits[DigitVal(d[Len(d)]) + 2]>>

\* The stem of f ends in '_' and a digit run, the '_' not at position 0.
HasGenerationSuffix(f) ==
  LET n == TrailingDigits(Stem(f))
  IN  n > 0 /\ Len(Stem(f)) - n > 1 /\ Stem(f)[Len(Stem(f)) - n] = "_"

\* f with the digit run of its generation suffix replaced by its successor.
WithNextSuffix(f) ==
  LET st == Stem(f)
      n  == TrailingDigits(st)
  IN  SubSeq(st, 1, Len(st) - n)
        \o DecimalSuccessor(StripZeros(SubSeq(st, Len(st) - n + 1, Len(st))))
        \o Extension(f)

C6_IncrementsSuffix ==
  (GenerateCalled /\ HasValidResult(call.arg) /\ HasGenerationSuffix(call.arg))
    => (call.outcome = "return" /\ call.out = WithNextSuffix(call.arg))

(***************************************************************************)
(* C7.  For every seed with a Valid extension whose character immediately  *)
(* before the last '.' is not a decimal digit, generateFilename returns    *)
(* the seed with "_1" inserted immediately before the last '.', all other  *)
(* characters unchanged.                                                   *)
(***************************************************************************)
C7_FirstSuffix ==
  (GenerateCalled /\ HasValidResult(call.arg) /\ ~isdigit(call.arg[LastDot(call.arg)]))
    => /\ call.outcome = "return"
       /\ call.out = Stem(call.arg) \o <<"_", "1">> \o Extension(call.arg)

\* generateFilename was called on a two-dot name with no digit before the
\* last '.' and returned.
C7_Witness ==
  /\ call.op = "generateFilename"
  /\ call.arg = <<"a", ".", "a", ".", "j", "p", "e", "g">>
  /\ call.out = <<"a", ".", "a", "_", "1", ".", "j", "p", "e", "g">>
  /\ call.outcome = "return"

(***************************************************************************)
(* C8.  generateFilename returns the empty string for every seed that      *)
(* does not have a Valid extension: the empty seed, a seed with no '.', a  *)
(* seed whose only '.' is its first character, a seed with an unsupported  *)
(* extension.                                                              *)
(***************************************************************************)
C8_RejectsInvalidSeed ==
  (GenerateCalled /\ ~HasValidResult(call.arg))
    => (call.outcome = "return" /\ call.out = <<>>)

(***************************************************************************)
(* C9.  After any sequence of copy constructions starting from one Image   *)
(* whose filename has a Valid extension, no two Image objects hold the     *)
(* same filename.                                                          *)
(***************************************************************************)
C9_NoDuplicateFilenames ==
  HasValidResult(images[1].filename)
    => \A i, j \in 1..Len(images) : i # j => images[i].filename # images[j].filename

(***************************************************************************)
(* C10.  For every filename containing a '.' at a position greater than    *)
(* 0, removeExtension removes exactly the substring from the last '.' to   *)
(* the end and reports success.                                            *)
(***************************************************************************)
C10_StripsLastExtension ==
  (call.op = "removeExtension" /\ LastDot(call.arg) > 0)
    => (call.ok /\ call.out = Stem(call.arg))

\* removeExtension was called on a name with two dots after position 0 and
\* kept the first of them.
C10_Witness ==
  /\ call.op = "removeExtension"
  /\ call.arg = <<"a", ".", "a", ".", "p", "n", "g">>
  /\ call.out = <<"a", ".", "a">>

(***************************************************************************)
(* C11.  removeExtension reports failure and leaves the filename unchanged *)
(* when the filename is empty, contains no '.', or contains a '.' only at  *)
(* position 0.                                                             *)
(***************************************************************************)
C11_StripFails ==
  (call.op = "removeExtension" /\ LastDot(call.arg) <= 0)
    => (~call.ok /\ call.out = call.arg)

\* removeExtension was called on a name whose only '.' is its first
\* character and left it as it was.
C11_Witness ==
  /\ call.op = "removeExtension"
  /\ call.arg = <<".", "a">>
  /\ ~call.ok
  /\ call.out = <<".", "a">>

(***************************************************************************)
(* C12.  For every non-empty filename whose extension is not Valid, on an  *)
(* initialized image, saveImage's removeExtension + addExtension path      *)
(* yields the filename with only the substring from its last '.' to the    *)
(* end removed (nothing removed when removeExtension has nothing to        *)
(* remove), followed by exactly one ".png".                                *)
(***************************************************************************)
C12_ReplacesExtension ==
  (/\ call.op = "saveImage"
   /\ initialized(images[call.img])
   /\ call.arg # <<>>
   /\ ~HasValidResult(call.arg))
    => LET kept == IF LastDot(call.arg) > 0 THEN Stem(call.arg) ELSE call.arg
       IN  /\ call.out = kept \o DefaultExtension
           /\ images[call.img].filename = kept \o DefaultExtension

(***************************************************************************)
(* C13.  When the filename already has a Valid extension, saveImage        *)
(* leaves the filename unchanged, however many times the image is saved.   *)
(***************************************************************************)
C13_ValidFilenameKept ==
  (call.op = "saveImage" /\ HasValidResult(call.arg))
    => (call.out = call.arg /\ images[call.img].filename = call.arg)

\* An initialized image with a Valid filename was saved, the save reached
\* the encoder, and the filename is the one it had.
C13_Witness ==
  /\ call.op = "saveImage"
  /\ call.encoded
  /\ call.arg = <<"a", ".", "a", ".", "j", "p", "g">>
  /\ images[call.img].filename = <<"a", ".", "a", ".", "j", "p", "g">>

(***************************************************************************)
(* C14.  Round trip: for every filename f on which removeExtension         *)
(* succeeds and every registry extension e, saveImage's extension          *)
(* handling applied to the stripped f followed by e returns that filename  *)
(* unchanged, and hasValidExtension returns a registry index for it.       *)
(***************************************************************************)
\* What saveImage does to the filename g of an initialized image, up to
\* the encode step: how it ends and the filename it leaves.
EnsureExtension(g) ==
  LET hv == hasValidExtension(g)
  IN  IF hv.outcome # "return" THEN [outcome |-> hv.outcome, out |-> g]
      ELSE [outcome |-> "return",
            out |-> FilenameToSave([filename |-> g, super |-> "data"], hv.ret).out]

C14_RoundTrip ==
  (call.op = "removeExtension" /\ call.ok)
    => \A k \in 1..EXTENSION_COUNT :
         LET g == call.out \o VALID_EXTENSIONS[k].ext
             r == EnsureExtension(g)
         IN  /\ r.outcome = "return"
             /\ r.out = g
             /\ HasValidResult(r.out)
             /\ hasValidExtension(r.out).ret = k - 1

\* removeExtension succeeded on a name with an unsupported extension and
\* two dots, leaving a stem that still has a '.'.
C14_Witness ==
  /\ call.op = "removeExtension"
  /\ call.ok
  /\ call.arg = <<"a", ".", "a", ".", "b", "m", "p">>
  /\ call.out = <<"a", ".", "a">>

(***************************************************************************)
(* C15.  hasValidExtension returns -1 for every filename whose last '.'    *)
(* is at a position greater than 0 and whose suffix from that '.' is not   *)
(* character for character a registry extension; the match is              *)
(* case-sensitive.                                                         *)
(***************************************************************************)
C15_Unsupported ==
  (/\ call.op = "hasValidExtension"
   /\ LastDot(call.arg) > 0
   /\ \A k \in 0..(EXTENSION_COUNT - 1) : ~IsRegistryExtension(Extension(call.arg), k))
    => (call.outcome = "return" /\ call.ret = -1)

\* hasValidExtension was called on a name ending in .PNG and returned -1.
C15_Witness ==
  /\ call.op = "hasValidExtension"
  /\ call.arg = <<"a", ".", "a", ".", "P", "N", "G">>
  /\ call.ret = -1

MaxDim == 2

\* Channel counts imread(.., IMREAD_UNCHANGED) yields: gray, BGR, BGRA.
ChannelCounts == {1, 3, 4}

\* The names openImage is called with, besides the empty string.
OpenNames == { <<"a", ".", "p", "n", "g">>, <<"9", ".", "p", "n", "g">> }

NullMat == [super |-> "null", rows |-> 0, cols |-> 0, channels |-> 0]

\* cv::Mat(imread(..)): an empty matrix when the file cannot be decoded,
\* else a matrix with data.
ImreadResults ==
  { [super |-> "nodata", rows |-> 0, cols |-> 0, channels |-> 1] }
    \cup { [super |-> "data", rows |-> r, cols |-> c, channels |-> ch]
             : r \in 1..MaxDim, c \in 1..MaxDim, ch \in ChannelCounts }

WithMat(filename, mat) ==
  [filename |-> filename, super |-> mat.super, rows |-> mat.rows,
   cols |-> mat.cols, channels |-> mat.channels]

\* openImage gone wrong: with an empty stored filename the parameter is
\* stored before the file is looked for.
openImage_StoresFirst(img, filename_param, files, decoded) ==
  IF initialized(img) \/ (filename_param = <<>> /\ img.filename = <<>>)
  THEN [ret |-> FALSE, img |-> img]
  ELSE IF filename_param # <<>> /\ img.filename = <<>>
  THEN IF filename_param \in files
       THEN [ret |-> TRUE, img |-> WithMat(filename_param, decoded)]
       ELSE [ret |-> FALSE, img |-> [img EXCEPT !.filename = filename_param]]
  ELSE IF filename_param # <<>> /\ img.filename # <<>>
  THEN IF img.filename \notin files /\ filename_param \in files
       THEN [ret |-> TRUE, img |-> WithMat(filename_param, decoded)]
       ELSE [ret |-> FALSE, img |-> img]
  ELSE IF filename_param = <<>> /\ img.filename # <<>> /\ img.filename \notin files
  THEN [ret |-> FALSE, img |-> img]
  ELSE [ret |-> TRUE, img |-> WithMat(img.filename, decoded)]

\* Image::openImage on img: the returned bool and the Image afterwards.
\* files are the names std::ifstream opens, decoded is what imread returns.
openImage(img, filename_param, files, decoded) ==
  IF initialized(img) \/ (filename_param = <<>> /\ img.filename = <<>>)
  THEN [ret |-> FALSE, img |-> img]
  ELSE IF filename_param # <<>> /\ img.filename = <<>>
  THEN IF filename_param \in files
       THEN [ret |-> TRUE, img |-> WithMat(filename_param, decoded)]
       ELSE [ret |-> FALSE, img |-> img]
  ELSE IF filename_param # <<>> /\ img.filename # <<>>
  THEN IF img.filename \notin files /\ filename_param \in files
       THEN [ret |-> TRUE, img |-> WithMat(filename_param, decoded)]
       ELSE [ret |-> FALSE, img |-> img]
  ELSE IF filename_param = <<>> /\ img.filename # <<>> /\ img.filename \notin files
  THEN [ret |-> FALSE, img |-> img]
  ELSE [ret |-> TRUE, img |-> WithMat(img.filename, decoded)]

\* The record of a call in this part: the Image before the call, the row
\* and column given, and whether super->at(row, col) was evaluated.
NoIOCall ==
  [ op |-> "none", img |-> 0, arg |-> <<>>, outcome |-> "none", ok |-> FALSE,
    ret |-> 0, row |-> 0, col |-> 0, C |-> 0, touched |-> FALSE,
    before |-> WithMat(<<>>, NullMat) ]

\* Image::Image(const std::string & filename = ""): the filename is stored
\* and openImage() is called; when it fails super is set to nullptr.
InitIO ==
  /\ \E f \in OpenNames \cup {<<>>}, files \in SUBSET OpenNames, decoded \in ImreadResults :
       LET r == openImage(WithMat(f, NullMat), <<>>, files, decoded)
       IN  images = << IF r.ret THEN r.img ELSE WithMat(r.img.filename, NullMat) >>
  /\ call = NoIOCall

\* A call of openImage on image i.
OpenImage(i) ==
  \E filename_param \in OpenNames \cup {<<>>}, files \in SUBSET OpenNames,
     decoded \in ImreadResults :
    LET r == openImage(images[i], filename_param, files, decoded)
    IN  /\ images' = [images EXCEPT ![i] = r.img]
        /\ call' = [NoIOCall EXCEPT !.op = "openImage", !.img = i,
                                    !.arg = filename_param, !.outcome = "return",
                                    !.ok = r.ret, !.before = images[i]]

\* Image::dimInRange(int row, int col).  The rows and columns given to the
\* callers are below 2^31, so their conversion from uint to int keeps them.
dimInRange(img, row, col) ==
  IF ~initialized(img) THEN FALSE
  ELSE IF row < 0 \/ row >= img.rows \/ col < 0 \/ col >= img.cols THEN FALSE
  ELSE TRUE

\* super->at< cv::Vec<uchar, C> >(row, col): the ways the access can end.
\* Inside the matrix the pixel is read or written.  Outside it the access
\* is undefined: the build touches memory at that row and column, or
\* stops at the range assertion of a debug build.
MatAt(img, row, col) ==
  IF row < img.rows /\ col < img.cols
  THEN { [outcome |-> "return", touched |-> TRUE] }
  ELSE { [outcome |-> "return", touched |-> TRUE],
         [outcome |-> "undefined", touched |-> FALSE] }

\* Image::getArrColors(row, col): the ways the call can end.
getArrColors(img, row, col) ==
  IF ~initialized(img) THEN { [outcome |-> "return", touched |-> FALSE, ok |-> FALSE] }
  ELSE IF img.channels \in 1..5
  THEN { [outcome |-> a.outcome, touched |-> a.touched, ok |-> a.outcome = "return"]
           : a \in MatAt(img, row, col) }
  ELSE { [outcome |-> "return", touched |-> FALSE, ok |-> FALSE] }

PixelCall(op, i, row, col) ==
  [NoIOCall EXCEPT !.op = op, !.img = i, !.row = row, !.col = col,
                   !.outcome = "return", !.before = images[i]]

\* A call of getArrColors(row, col) on image i.
GetArrColors(i, row, col) ==
  /\ \E r \in getArrColors(images[i], row, col) :
       call' = [PixelCall("getArrColors", i, row, col) EXCEPT
                  !.outcome = r.outcome, !.touched = r.touched, !.ok = r.ok]
  /\ UNCHANGED images

\* A call of getArrColors_int(row, col) on image i: getArrColors, then the
\* copy of the channel values into an array of uint.
GetArrColorsInt(i, row, col) ==
  /\ \E r \in getArrColors(images[i], row, col) :
       call' = [PixelCall("getArrColors_int", i, row, col) EXCEPT
                  !.outcome = r.outcome, !.touched = r.touched, !.ok = r.ok]
  /\ UNCHANGED images

\* A call of getPixelIntensity<C>(row, col) on image i; ret is -2 or -1 for
\* the two error codes, 0 stands for the average that is returned.
GetPixelIntensity(i, C, row, col) ==
  /\ IF ~dimInRange(images[i], row, col)
     THEN call' = [PixelCall("getPixelIntensity", i, row, col) EXCEPT !.C = C, !.ret = -2]
     ELSE IF C # images[i].channels
     THEN call' = [PixelCall("getPixelIntensity", i, row, col) EXCEPT !.C = C, !.ret = -1]
     ELSE \E a \in MatAt(images[i], row, col) :
            call' = [PixelCall("getPixelIntensity", i, row, col) EXCEPT
                       !.C = C, !.outcome = a.outcome, !.touched = a.touched,
                       !.ok = a.outcome = "return"]
  /\ UNCHANGED images

\* A call of setPixel<C>(row, col, c_vec) on image i.  Every uchar of c_vec
\* is below 256, so the value check passes.
SetPixelVec(i, C, row, col) ==
  /\ IF ~initialized(images[i]) \/ ~dimInRange(images[i], row, col)
     THEN call' = [PixelCall("setPixel_vec", i, row, col) EXCEPT !.C = C]
     ELSE \E a \in MatAt(images[i], row, col) :
            call' = [PixelCall("setPixel_vec", i, row, col) EXCEPT
                       !.C = C, !.outcome = a.outcome, !.touched = a.touched,
                       !.ok = a.outcome = "return"]
  /\ UNCHANGED images

\* A call of setPixel(row, col, c_arr) on image i (the uint overload casts
\* its array and calls this one).
SetPixelArr(i, row, col) ==
  /\ IF ~initialized(images[i]) \/ ~dimInRange(images[i], row, col)
     THEN call' = PixelCall("setPixel_arr", i, row, col)
     ELSE IF images[i].channels \in 1..5
     THEN \E a \in MatAt(images[i], row, col) :
            call' = [PixelCall("setPixel_arr", i, row, col) EXCEPT
                       !.outcome = a.outcome, !.touched = a.touched,
                       !.ok = a.outcome = "return"]
     ELSE call' = PixelCall("setPixel_arr", i, row, col)
  /\ UNCHANGED images

NextIO ==
  \E i \in 1..Len(images) :
    \/ OpenImage(i)
    \/ \E row \in 0..MaxDim, col \in 0..MaxDim :
         \/ GetArrColors(i, row, col)
         \/ GetArrColorsInt(i, row, col)
         \/ SetPixelArr(i, row, col)
         \/ \E C \in ChannelCounts :
              \/ GetPixelIntensity(i, C, row, col)
              \/ SetPixelVec(i, C, row, col)

SpecIO == InitIO /\ [][NextIO]_vars

\* The last call was one of the operations that take a row and a column.
PixelOpCalled ==
  call.op \in {"getArrColors", "getArrColors_int", "getPixelIntensity",
               "setPixel_vec", "setPixel_arr"}

(***************************************************************************)
(* C17.  Every operation that takes a row and a column checks them with    *)
(* dimInRange before touching pixel data: no pixel is read or written      *)
(* with row >= height or col >= width.                                     *)
(***************************************************************************)
C17_AccessInRange ==
  (PixelOpCalled /\ call.touched)
    => (call.row < images[call.img].rows /\ call.col < images[call.img].cols)

(***************************************************************************)
(* C18.  Whenever openImage returns true, the image is initialized         *)
(* afterwards.                                                             *)
(***************************************************************************)
C18_OpenedIsInitialized ==
  (call.op = "openImage" /\ call.ok) => initialized(images[call.img])

(***************************************************************************)
(* C19.  Whenever openImage returns false, the stored filename and the     *)
(* image data are as they were before the call; openImage on an            *)
(* initialized image returns false, whatever filename is given.            *)
(***************************************************************************)
C19_FailedOpenChangesNothing ==
  call.op = "openImage"
    => /\ ~call.ok => images[call.img] = call.before
       /\ initialized(call.before) => ~call.ok

\* openImage was called with the name of another file on an initialized
\* image and returned false.
C19_Witness ==
  /\ call.op = "openImage"
  /\ initialized(call.before)
  /\ call.arg # <<>>
  /\ call.arg # call.before.filename
  /\ ~call.ok
  /\ images[call.img] = call.before

====
